---- MODULE Spec2Model ----
(***************************************************************************)
(* Sales analytics chatbot: parameter extraction (ai_extractor.py), month  *)
(* normalisation (data_loader.py) and the pandas query engine              *)
(* (query_engine.py), as driven by one chat turn of app.py.                *)
(*                                                                         *)
(* Python values are records [t, s, n]: t is the Python type, s the text   *)
(* of a str as a sequence of one-character strings, n the number of an int *)
(* (a float is kept in tenths, a list by its length).                      *)
(***************************************************************************)
EXTENDS Integers, Sequences, FiniteSets, TLC

\* ------------------------------------------------------------------ bounds
\* Longest row set the ingestion collaborator delivers in the model.
MaxRows == 3
\* Largest retry_count a caller passes to extract_parameters in the model.
MaxRetry == 3
\* The number of user messages a chat history is followed over.
MaxMessages == 3

\* ---------------------------------------------------------- Python values
PyNone == [t |-> "none", s |-> <<>>, n |-> 0]
PyStr(x) == [t |-> "str", s |-> x, n |-> 0]
PyInt(k) == [t |-> "int", s |-> <<>>, n |-> k]
\* A float, kept in tenths: PyFloat(25) is 2.5.
PyFloat(tenths) == [t |-> "float", s |-> <<>>, n |-> tenths]
\* A JSON array of the given length.
PyList(len) == [t |-> "list", s |-> <<>>, n |-> len]
\* A key the JSON object does not hold (dict.get returns its default).
Absent == [t |-> "absent", s |-> <<>>, n |-> 0]

\* Python truth value: `if x:`.
Truthy(v) ==
  CASE v.t = "none" -> FALSE
    [] v.t = "absent" -> FALSE
    [] v.t = "str" -> v.s # <<>>
    [] OTHER -> v.n # 0

\* dict.get(key): None for a missing key.
Get(v) == IF v.t = "absent" THEN PyNone ELSE v
\* dict.get(key, default).
GetOr(v, default) == IF v.t = "absent" THEN default ELSE v

\* ---------------------------------------------------------------- strings
LowerLetters == <<"a","b","c","d","e","f","g","h","i","j","k","l","m","n","o","p","q","r","s","t","u","v","w","x","y","z">>
UpperLetters == <<"A","B","C","D","E","F","G","H","I","J","K","L","M","N","O","P","Q","R","S","T","U","V","W","X","Y","Z">>
DigitChars == <<"0","1","2","3","4","5","6","7","8","9">>
\* U+017F LATIN SMALL LETTER LONG S, one character (the module is ASCII).
LongS == "u017f"
\* Characters in code point order, for sorting group keys.
Alphabet == <<" ", "+", "-", ".">> \o DigitChars \o UpperLetters \o LowerLetters \o <<LongS>>

IndexOf(seq, c) ==
  IF \E i \in 1..Len(seq) : seq[i] = c
  THEN CHOOSE i \in 1..Len(seq) : seq[i] = c /\ \A j \in 1..(i - 1) : seq[j] # c
  ELSE 0

\* str.lower() of one character.
LowerChar(c) == IF IndexOf(UpperLetters, c) > 0 THEN LowerLetters[IndexOf(UpperLetters, c)] ELSE c
\* str.upper() of one character; the long s has the upper case S.
UpperChar(c) ==
  IF IndexOf(LowerLetters, c) > 0 THEN UpperLetters[IndexOf(LowerLetters, c)]
  ELSE IF c = LongS THEN "S" ELSE c

Lower(s) == [i \in 1..Len(s) |-> LowerChar(s[i])]
Upper(s) == [i \in 1..Len(s) |-> UpperChar(s[i])]

RECURSIVE LStrip(_)
LStrip(s) == IF s # <<>> /\ Head(s) = " " THEN LStrip(Tail(s)) ELSE s
RECURSIVE RStrip(_)
RStrip(s) == IF s # <<>> /\ s[Len(s)] = " " THEN RStrip(SubSeq(s, 1, Len(s) - 1)) ELSE s
\* str.strip().
Strip(s) == RStrip(LStrip(s))

RECURSIVE StrLess(_, _)
\* s < t in Python's (code point, lexicographic) string order.
StrLess(s, t) ==
  IF t = <<>> THEN FALSE
  ELSE IF s = <<>> THEN TRUE
  ELSE IF Head(s) = Head(t) THEN StrLess(Tail(s), Tail(t))
  ELSE IndexOf(Alphabet, Head(s)) < IndexOf(Alphabet, Head(t))

IsDigits(s) == s # <<>> /\ \A i \in 1..Len(s) : IndexOf(DigitChars, s[i]) > 0
RECURSIVE DigitsValue(_)
DigitsValue(s) == IF s = <<>> THEN 0 ELSE 10 * DigitsValue(SubSeq(s, 1, Len(s) - 1)) + (IndexOf(DigitChars, s[Len(s)]) - 1)
RECURSIVE NatToStr(_)
NatToStr(k) == IF k < 10 THEN <<DigitChars[k + 1]>> ELSE NatToStr(k \div 10) \o <<DigitChars[(k % 10) + 1]>>

\* str(x) for the values normalize_month can be handed.
PyStrOf(v) ==
  CASE v.t = "str" -> v.s
    [] v.t = "int" -> IF v.n < 0 THEN <<"-">> \o NatToStr(-v.n) ELSE NatToStr(v.n)
    [] v.t = "float" -> (IF v.n < 0 THEN <<"-">> ELSE <<>>)
                        \o NatToStr((IF v.n < 0 THEN -v.n ELSE v.n) \div 10) \o <<".">>
                        \o NatToStr((IF v.n < 0 THEN -v.n ELSE v.n) % 10)
    [] OTHER -> <<"[", "]">>

\* int(x): [ok |-> TRUE, n |-> the integer], or ok = FALSE where int() raises
\* (ValueError for text that is no integer literal, TypeError for a list).
PyIntOf(v) ==
  CASE v.t = "int" -> [ok |-> TRUE, n |-> v.n]
    [] v.t = "float" -> [ok |-> TRUE, n |-> IF v.n >= 0 THEN v.n \div 10 ELSE -((-v.n) \div 10)]
    [] v.t = "str" ->
         LET body == Strip(v.s)
             signed == body # <<>> /\ Head(body) \in {"+", "-"}
             digits == IF signed THEN Tail(body) ELSE body
         IN IF IsDigits(digits)
            THEN [ok |-> TRUE, n |-> IF signed /\ Head(body) = "-" THEN -DigitsValue(digits) ELSE DigitsValue(digits)]
            ELSE [ok |-> FALSE, n |-> 0]
    [] OTHER -> [ok |-> FALSE, n |-> 0]

\* ------------------------------------------------------- data_loader.py
MONTH_MAPPING ==
  <<
     <<<<"j","a","n","u","a","r","y">>, <<"J","A","N">>>>,
     <<<<"j","a","n">>, <<"J","A","N">>>>,
     <<<<"f","e","b","r","u","a","r","y">>, <<"F","E","B">>>>,
     <<<<"f","e","b">>, <<"F","E","B">>>>,
     <<<<"m","a","r","c","h">>, <<"M","A","R">>>>,
     <<<<"m","a","r">>, <<"M","A","R">>>>,
     <<<<"a","p","r","i","l">>, <<"A","P","R">>>>,
     <<<<"a","p","r">>, <<"A","P","R">>>>,
     <<<<"m","a","y">>, <<"M","A","Y">>>>,
     <<<<"j","u","n","e">>, <<"J","U","N">>>>,
     <<<<"j","u","n">>, <<"J","U","N">>>>,
     <<<<"j","u","l","y">>, <<"J","U","L">>>>,
     <<<<"j","u","l">>, <<"J","U","L">>>>,
     <<<<"a","u","g","u","s","t">>, <<"A","U","G">>>>,
     <<<<"a","u","g">>, <<"A","U","G">>>>,
     <<<<"s","e","p","t","e","m","b","e","r">>, <<"S","E","P">>>>,
     <<<<"s","e","p">>, <<"S","E","P">>>>,
     <<<<"o","c","t","o","b","e","r">>, <<"O","C","T">>>>,
     <<<<"o","c","t">>, <<"O","C","T">>>>,
     <<<<"n","o","v","e","m","b","e","r">>, <<"N","O","V">>>>,
     <<<<"n","o","v">>, <<"N","O","V">>>>,
     <<<<"d","e","c","e","m","b","e","r">>, <<"D","E","C">>>>,
     <<<<"d","e","c">>, <<"D","E","C">>>>
  >>

MonthLookup(key) ==
  IF \E i \in 1..Len(MONTH_MAPPING) : MONTH_MAPPING[i][1] = key
  THEN PyStr(MONTH_MAPPING[CHOOSE i \in 1..Len(MONTH_MAPPING) : MONTH_MAPPING[i][1] = key][2])
  ELSE PyNone

\* normalize_month(month_str): [ok, val, exc]. dict.get evaluates its default
\* month_str.upper() before the lookup, so a value that is no str raises
\* AttributeError whether or not the lookup would have matched.
normalize_month(month_str) ==
  IF ~Truthy(month_str) THEN [ok |-> TRUE, val |-> PyNone, exc |-> "none"]
  ELSE LET month_lower == Lower(Strip(PyStrOf(month_str)))
       IN IF month_str.t # "str" THEN [ok |-> FALSE, val |-> PyNone, exc |-> "AttributeError"]
          ELSE IF MonthLookup(month_lower) # PyNone
               THEN [ok |-> TRUE, val |-> MonthLookup(month_lower), exc |-> "none"]
               ELSE [ok |-> TRUE, val |-> PyStr(Upper(month_str.s)), exc |-> "none"]

\* ------------------------------------------------------- ai_extractor.py
Str_sales == <<"s","a","l","e","s">>
Str_active_stores == <<"a","c","t","i","v","e","_","s","t","o","r","e","s">>
Str_sum == <<"s","u","m">>
Str_count == <<"c","o","u","n","t">>
Str_average == <<"a","v","e","r","a","g","e">>
Str_yoy == <<"y","o","y">>

\* retry_count's default in extract_parameters' signature.
DefaultRetryCount == 3

\* The defaults with the aggregation 'count'.
get_default_parameters_CountAggregation ==
  [brand |-> PyNone, product |-> PyNone, month |-> PyNone, year |-> PyNone,
   region |-> PyNone, metric |-> PyStr(Str_sales), aggregation |-> PyStr(Str_count),
   comparison |-> PyNone, top_n |-> PyNone]

get_default_parameters ==
  [brand |-> PyNone, product |-> PyNone, month |-> PyNone, year |-> PyNone,
   region |-> PyNone, metric |-> PyStr(Str_sales), aggregation |-> PyStr(Str_sum),
   comparison |-> PyNone, top_n |-> PyNone]

\* The `if x: try: x = int(x) except: x = None` blocks of validate_parameters.
CoerceInt(v) ==
  IF Truthy(v)
  THEN IF PyIntOf(v).ok THEN PyInt(PyIntOf(v).n) ELSE PyNone
  ELSE v

\* validate_parameters without the check of the metric.
validate_parameters_MetricUnchecked(params) ==
  LET aggregation == GetOr(params.aggregation, PyStr(Str_sum))
  IN [brand |-> Get(params.brand),
      product |-> Get(params.product),
      month |-> Get(params.month),
      year |-> CoerceInt(Get(params.year)),
      region |-> Get(params.region),
      metric |-> GetOr(params.metric, PyStr(Str_sales)),
      aggregation |-> IF aggregation \notin {PyStr(Str_sum), PyStr(Str_count), PyStr(Str_average)}
                      THEN PyStr(Str_sum) ELSE aggregation,
      comparison |-> Get(params.comparison),
      top_n |-> CoerceInt(Get(params.top_n))]

\* validate_parameters(params), params a JSON object whose missing keys are Absent.
validate_parameters(params) ==
  LET metric == GetOr(params.metric, PyStr(Str_sales))
      aggregation == GetOr(params.aggregation, PyStr(Str_sum))
  IN [brand |-> Get(params.brand),
      product |-> Get(params.product),
      month |-> Get(params.month),
      year |-> CoerceInt(Get(params.year)),
      region |-> Get(params.region),
      metric |-> IF metric \notin {PyStr(Str_sales), PyStr(Str_active_stores)}
                 THEN PyStr(Str_sales) ELSE metric,
      aggregation |-> IF aggregation \notin {PyStr(Str_sum), PyStr(Str_count), PyStr(Str_average)}
                      THEN PyStr(Str_sum) ELSE aggregation,
      comparison |-> Get(params.comparison),
      top_n |-> CoerceInt(Get(params.top_n))]

\* ------------------------------------------------------- query_engine.py
\* A row set: the columns it has and its rows in order. A row is
\* [brand, category, sub_brand, month, year, area, city, store_id, sales];
\* text columns hold character sequences, year and store_id integers and
\* sales PyInt(v) or PyNone (a missing value, NaN in the frame). frame[mask] is
\* SelectSeq: the rows where the mask holds, in order.

Raise(exc) == [ok |-> FALSE, rows |-> <<>>, exc |-> exc]
Kept(rows) == [ok |-> TRUE, rows |-> rows, exc |-> "none"]

\* if params.get('brand'): keep rows whose brand matches, ignoring case.
FilterBrand(cur, params) ==
  IF ~cur.ok \/ ~Truthy(params.brand) THEN cur
  ELSE IF params.brand.t # "str" THEN Raise("AttributeError")
  ELSE Kept(SelectSeq(cur.rows, LAMBDA r : Lower(r.brand) = Lower(params.brand.s)))

\* if params.get('product'): category if the frame has it, else sub_brand, else nothing.
FilterProduct(cur, params, columns) ==
  IF ~cur.ok \/ ~Truthy(params.product) THEN cur
  ELSE IF "category" \in columns
       THEN IF params.product.t # "str" THEN Raise("AttributeError")
            ELSE Kept(SelectSeq(cur.rows, LAMBDA r : Lower(r.category) = Lower(params.product.s)))
  ELSE IF "sub_brand" \in columns
       THEN IF params.product.t # "str" THEN Raise("AttributeError")
            ELSE Kept(SelectSeq(cur.rows, LAMBDA r : Lower(r.sub_brand) = Lower(params.product.s)))
  ELSE cur

\* if params.get('month'): keep rows whose month is the normalised parameter.
FilterMonth(cur, params) ==
  IF ~cur.ok \/ ~Truthy(params.month) THEN cur
  ELSE LET normalized_month == normalize_month(params.month)
       IN IF ~normalized_month.ok THEN Raise(normalized_month.exc)
          ELSE Kept(SelectSeq(cur.rows, LAMBDA r : PyStr(r.month) = normalized_month.val))

\* result['year'] == params['year'] for one row; a year that is no number equals no row.
YearEquals(rowYear, year) ==
  CASE year.t = "int" -> rowYear = year.n
    [] year.t = "float" -> 10 * rowYear = year.n
    [] OTHER -> FALSE

\* if params.get('year') and not params.get('comparison') == 'yoy'.
FilterYear(cur, params) ==
  IF ~cur.ok \/ ~(Truthy(params.year) /\ ~(params.comparison = PyStr(Str_yoy))) THEN cur
  ELSE Kept(SelectSeq(cur.rows, LAMBDA r : YearEquals(r.year, params.year)))

\* if params.get('region'): area or city matches, ignoring case.
FilterRegion(cur, params, columns) ==
  IF ~cur.ok \/ ~Truthy(params.region) THEN cur
  ELSE IF params.region.t # "str" THEN Raise("AttributeError")
  ELSE IF "area" \notin columns \/ "city" \notin columns THEN Raise("KeyError")
  ELSE Kept(SelectSeq(cur.rows, LAMBDA r : \/ Lower(r.area) = Lower(params.region.s)
                                            \/ Lower(r.city) = Lower(params.region.s)))

\* The filter predicates of query_data, in the order the code applies them.
ApplyFilters(frame, params) ==
  FilterRegion(
    FilterYear(
      FilterMonth(
        FilterProduct(
          FilterBrand(Kept(frame.rows), params),
          params, frame.columns),
        params),
      params),
    params, frame.columns)

\* ---------------------------------------------------------------- numbers
\* A float of a result: a rational num/den (den > 0), or nan, inf, -inf.
Rat(a, b) == [k |-> "num", num |-> a, den |-> b]
NaN == [k |-> "nan", num |-> 0, den |-> 1]
PosInf == [k |-> "inf", num |-> 0, den |-> 1]
NegInf == [k |-> "-inf", num |-> 0, den |-> 1]

\* a / b in floating point, b possibly zero.
FloatDiv(a, b) ==
  IF b > 0 THEN Rat(a, b)
  ELSE IF b < 0 THEN Rat(-a, -b)
  ELSE IF a > 0 THEN PosInf ELSE IF a < 0 THEN NegInf ELSE NaN

\* p / q (q > 0) rounded to the nearest integer, halves to the even one (numpy's round).
RoundHalfEven(p, q) ==
  LET f == p \div q
      r == p - q * f
  IN IF 2 * r < q THEN f
     ELSE IF 2 * r > q THEN f + 1
     ELSE IF f % 2 = 0 THEN f ELSE f + 1

\* The percentage cut to two decimals (rounded down) instead of rounded.
PercentRound2_Truncated(x) ==
  IF x.k # "num" THEN x ELSE Rat((x.num * 10000) \div x.den, 100)

\* (x * 100).round(2) for x = a / b: a number in hundredths over 100.
PercentRound2(x) ==
  IF x.k # "num" THEN x ELSE Rat(RoundHalfEven(x.num * 10000, x.den), 100)

\* ------------------------------------------------------------- group-by
RECURSIVE SumSales(_)
\* Series.sum() of the sales column: missing values are skipped, an empty sum is 0.
SumSales(rows) ==
  IF rows = <<>> THEN 0
  ELSE (IF Head(rows).sales.t = "int" THEN Head(rows).sales.n ELSE 0) + SumSales(Tail(rows))

\* The count with every row counted, a missing value like a zero.
CountSales_EveryRow(rows) == Len(rows)

\* Series.count(): the rows whose sales value is not missing.
CountSales(rows) == Len(SelectSeq(rows, LAMBDA r : r.sales.t = "int"))

RECURSIVE SortInts(_)
\* The group keys of groupby(...), which sorts them: integers ascending.
SortInts(S) ==
  IF S = {} THEN <<>>
  ELSE LET m == CHOOSE x \in S : \A y \in S : x <= y
       IN <<m>> \o SortInts(S \ {m})

RECURSIVE SortStrs(_)
\* The group keys of groupby(...), which sorts them: strings in Python's order.
SortStrs(S) ==
  IF S = {} THEN <<>>
  ELSE LET m == CHOOSE x \in S : \A y \in S \ {x} : StrLess(x, y)
       IN <<m>> \o SortStrs(S \ {m})

Brands(rows) == {rows[i].brand : i \in 1..Len(rows)}
Years(rows) == {rows[i].year : i \in 1..Len(rows)}
Stores(rows) == {rows[i].store_id : i \in 1..Len(rows)}

\* The stores whose net sales are not negative.
ActiveStores_NetNotNegative(rows) ==
  {st \in Stores(rows) : SumSales(SelectSeq(rows, LAMBDA r : r.store_id = st)) >= 0}

\* groupby('store_id')['sales'].sum() kept where > 0: the stores with positive net sales.
ActiveStores(rows) ==
  {st \in Stores(rows) : SumSales(SelectSeq(rows, LAMBDA r : r.store_id = st)) > 0}

RECURSIVE NLargest(_, _)
\* Series.nlargest(n) over <<key, value>> pairs: the n largest values, largest first,
\* equal values in their order in the series (keep='first'); nothing when n <= 0.
NLargest(pairs, n) ==
  IF n <= 0 \/ pairs = <<>> THEN <<>>
  ELSE LET i == CHOOSE j \in 1..Len(pairs) :
                  /\ \A m \in 1..Len(pairs) : pairs[m][2] <= pairs[j][2]
                  /\ \A m \in 1..(j - 1) : pairs[m][2] < pairs[j][2]
       IN <<pairs[i]>> \o NLargest(SubSeq(pairs, 1, i - 1) \o SubSeq(pairs, i + 1, Len(pairs)), n - 1)

RECURSIVE SumPairs(_)
SumPairs(pairs) == IF pairs = <<>> THEN 0 ELSE Head(pairs)[2] + SumPairs(Tail(pairs))

\* DataFrame.head(n).
HeadRows(rows, n) == SubSeq(rows, 1, IF Len(rows) < n THEN Len(rows) ELSE n)

RECURSIVE DropDuplicateStores(_, _)
\* drop_duplicates('store_id'): the first row of each store, in order.
DropDuplicateStores(rows, seen) ==
  IF rows = <<>> THEN <<>>
  ELSE IF Head(rows).store_id \in seen THEN DropDuplicateStores(Tail(rows), seen)
  ELSE <<Head(rows)>> \o DropDuplicateStores(Tail(rows), seen \cup {Head(rows).store_id})

\* ------------------------------------------------------ terminal stages
\* head(100): the display cap of the standard path.
DisplayCap == 100
\* params.get('top_n', 5): the default of get_top_n.
DefaultTopN == 5

\* An f-string of a result, kept as its template and its argument.
Formatted(text, arg) == [text |-> text, arg |-> arg]

\* query_data, lines 73-118: the standard aggregation of the filtered rows.
StandardAggregation(rows, params) ==
  LET metric == GetOr(params.metric, PyStr(Str_sales))
      aggregation == GetOr(params.aggregation, PyStr(Str_sum))
      salesTable == [i \in 1..Len(rows) |->
                       [brand |-> rows[i].brand, month |-> rows[i].month,
                        year |-> rows[i].year, sales |-> rows[i].sales]]
      active == ActiveStores(rows)
      display_data == DropDuplicateStores(SelectSeq(rows, LAMBDA r : r.store_id \in active), {})
      Default == [value |-> Rat(Len(rows), 1),
                  formatted |-> Formatted("records", Rat(Len(rows), 1)),
                  row_count |-> Len(rows),
                  data |-> HeadRows(rows, DisplayCap)]
  IN IF metric = PyStr(Str_sales)
     THEN IF aggregation = PyStr(Str_sum)
          THEN [value |-> Rat(SumSales(rows), 1),
                formatted |-> Formatted("currency", Rat(SumSales(rows), 1)),
                row_count |-> Len(rows),
                data |-> HeadRows(salesTable, DisplayCap)]
          ELSE IF aggregation = PyStr(Str_average)
          THEN LET avg == IF CountSales(rows) = 0 THEN NaN
                          ELSE Rat(SumSales(rows), CountSales(rows))
               IN [value |-> avg,
                   formatted |-> Formatted("currency", avg),
                   row_count |-> Len(rows),
                   data |-> HeadRows(salesTable, DisplayCap)]
          ELSE Default
     ELSE IF metric = PyStr(Str_active_stores)
     THEN [value |-> Rat(Cardinality(active), 1),
           formatted |-> Formatted("stores", Rat(Cardinality(active), 1)),
           row_count |-> Len(rows),
           data |-> HeadRows([i \in 1..Len(display_data) |->
                                [brand |-> display_data[i].brand, month |-> display_data[i].month,
                                 year |-> display_data[i].year, store_id |-> display_data[i].store_id]],
                             DisplayCap)]
     ELSE Default

\* df.groupby('brand')['sales'].sum(): <<brand, sum>> in key order.
SalesByBrand(rows) ==
  LET keys == SortStrs(Brands(rows))
  IN [i \in 1..Len(keys) |-> <<keys[i], SumSales(SelectSeq(rows, LAMBDA r : r.brand = keys[i]))>>]

\* The (brand, store) pairs with positive net sales, counted per brand: <<brand, count>>
\* in key order; a brand with no such store has no entry.
ActiveByBrand(rows) ==
  LET Count(b) == Cardinality(ActiveStores(SelectSeq(rows, LAMBDA r : r.brand = b)))
      keys == SortStrs({b \in Brands(rows) : Count(b) > 0})
  IN [i \in 1..Len(keys) |-> <<keys[i], Count(keys[i])>>]

\* get_top_n(df, params).
get_top_n(rows, params) ==
  LET n == GetOr(params.top_n, PyInt(DefaultTopN)).n
      metric == GetOr(params.metric, PyStr(Str_sales))
      grouped == NLargest(SalesByBrand(rows), n)
      active_by_brand == NLargest(ActiveByBrand(rows), n)
  IN IF metric = PyStr(Str_sales)
     THEN [value |-> Rat(n, 1),
           formatted |-> Formatted("top_brands_by_sales", Rat(n, 1)),
           row_count |-> Len(grouped),
           data |-> [i \in 1..Len(grouped) |->
                       [brand |-> grouped[i][1], sales |-> grouped[i][2],
                        percentage |-> PercentRound2(FloatDiv(grouped[i][2], SumPairs(grouped)))]],
           chart_type |-> "bar"]
     ELSE IF metric = PyStr(Str_active_stores)
     THEN [value |-> Rat(n, 1),
           formatted |-> Formatted("top_brands_by_active_stores", Rat(n, 1)),
           row_count |-> Len(active_by_brand),
           data |-> [i \in 1..Len(active_by_brand) |->
                       [brand |-> active_by_brand[i][1], active_stores |-> active_by_brand[i][2],
                        percentage |-> PercentRound2(FloatDiv(active_by_brand[i][2], SumPairs(active_by_brand)))]],
           chart_type |-> "bar"]
     ELSE [error |-> "Invalid metric for top N query"]

\* df.groupby('year')['sales'].sum(), sorted by year: <<year, sum>>.
SalesByYear(rows) ==
  LET keys == SortInts(Years(rows))
  IN [i \in 1..Len(keys) |-> <<keys[i], SumSales(SelectSeq(rows, LAMBDA r : r.year = keys[i]))>>]

\* The per-year counts with a row for every year, a year with no active store counted 0.
ActiveByYear_EveryYear(rows) ==
  LET Count(y) == Cardinality(ActiveStores(SelectSeq(rows, LAMBDA r : r.year = y)))
      keys == SortInts(Years(rows))
  IN [i \in 1..Len(keys) |-> <<keys[i], Count(keys[i])>>]

\* The (year, store) pairs with positive net sales, counted per year and sorted by
\* year: <<year, count>>; a year with no such store has no entry.
ActiveByYear(rows) ==
  LET Count(y) == Cardinality(ActiveStores(SelectSeq(rows, LAMBDA r : r.year = y)))
      keys == SortInts({y \in Years(rows) : Count(y) > 0})
  IN [i \in 1..Len(keys) |-> <<keys[i], Count(keys[i])>>]

\* The change taken relative to the current year instead of the preceding one.
PctChange_OfCurrent(prev, cur) ==
  IF cur = 0 THEN FloatDiv(-prev, 0) ELSE FloatDiv((cur - prev) * 100, cur)

\* Series.pct_change() * 100 at one position: (cur / prev - 1) * 100.
PctChange(prev, cur) ==
  IF prev = 0 THEN FloatDiv(cur, 0) ELSE FloatDiv((cur - prev) * 100, prev)

\* calculate_yoy(df, params).
calculate_yoy(rows, params) ==
  LET metric == GetOr(params.metric, PyStr(Str_sales))
      yearly == SalesByYear(rows)
      active_by_year == ActiveByYear(rows)
      Change(t, i) == IF i = 1 THEN [pct |-> NaN, abs |-> NaN]
                      ELSE [pct |-> PctChange(t[i - 1][2], t[i][2]),
                            abs |-> Rat(t[i][2] - t[i - 1][2], 1)]
  IN IF metric = PyStr(Str_sales)
     THEN IF Len(yearly) >= 2
          THEN [value |-> Rat(Len(yearly), 1),
                formatted |-> Formatted("yoy_sales_years", Rat(Len(yearly), 1)),
                row_count |-> Len(yearly),
                data |-> [i \in 1..Len(yearly) |->
                            [year |-> yearly[i][1], sales |-> yearly[i][2],
                             yoy_change_pct |-> Change(yearly, i).pct,
                             yoy_change_abs |-> Change(yearly, i).abs]],
                chart_type |-> "line"]
          ELSE [error |-> "Insufficient data",
                message |-> "Need at least 2 years of data for YoY comparison",
                data |-> [i \in 1..Len(yearly) |-> [year |-> yearly[i][1], sales |-> yearly[i][2]]]]
     ELSE IF metric = PyStr(Str_active_stores)
     THEN IF Len(active_by_year) >= 2
          THEN [value |-> Rat(Len(active_by_year), 1),
                formatted |-> Formatted("yoy_active_stores_years", Rat(Len(active_by_year), 1)),
                row_count |-> Len(active_by_year),
                data |-> [i \in 1..Len(active_by_year) |->
                            [year |-> active_by_year[i][1], active_stores |-> active_by_year[i][2],
                             yoy_change_pct |-> Change(active_by_year, i).pct,
                             yoy_change_abs |-> Change(active_by_year, i).abs]],
                chart_type |-> "line"]
          ELSE [error |-> "Insufficient data",
                message |-> "Need at least 2 years of data for YoY comparison",
                data |-> [i \in 1..Len(active_by_year) |->
                            [year |-> active_by_year[i][1], active_stores |-> active_by_year[i][2]]]]
     ELSE [error |-> "Invalid metric for YoY comparison"]

\* The column assignments of a terminal stage, each with the frame object it writes to.
\* The stage's argument is the object named df there; every assignment of the code is on
\* a frame that reset_index() has just made.
ColumnWrites_OnArgument(stage, metric) ==
  IF stage = "get_top_n" /\ metric \in {PyStr(Str_sales), PyStr(Str_active_stores)}
  THEN {[target |-> "df", column |-> "percentage"]}
  ELSE IF stage = "calculate_yoy" /\ metric \in {PyStr(Str_sales), PyStr(Str_active_stores)}
  THEN {[target |-> "df", column |-> "yoy_change_pct"], [target |-> "df", column |-> "yoy_change_abs"]}
  ELSE {}

ColumnWrites(stage, metric) ==
  IF stage = "get_top_n" /\ metric = PyStr(Str_sales)
  THEN {[target |-> "grouped", column |-> "percentage"]}
  ELSE IF stage = "get_top_n" /\ metric = PyStr(Str_active_stores)
  THEN {[target |-> "active_by_brand", column |-> "brand"],
        [target |-> "active_by_brand", column |-> "active_stores"],
        [target |-> "active_by_brand", column |-> "percentage"]}
  ELSE IF stage = "calculate_yoy" /\ metric = PyStr(Str_sales)
  THEN {[target |-> "yearly", column |-> "yoy_change_pct"],
        [target |-> "yearly", column |-> "yoy_change_abs"]}
  ELSE IF stage = "calculate_yoy" /\ metric = PyStr(Str_active_stores)
  THEN {[target |-> "active_by_year", column |-> "year"],
        [target |-> "active_by_year", column |-> "active_stores"],
        [target |-> "active_by_year", column |-> "yoy_change_pct"],
        [target |-> "active_by_year", column |-> "yoy_change_abs"]}
  ELSE {}

\* frame[column] = ... for each of the columns: every row gets the column.
AssignColumns(frame, columns) ==
  IF columns = {} THEN frame
  ELSE [frame EXCEPT !.rows =
          [i \in 1..Len(frame.rows) |->
             [c \in DOMAIN frame.rows[i] \cup columns |->
                IF c \in columns THEN "assigned" ELSE frame.rows[i][c]]]]

\* The stage's argument after the stage: the columns assigned on the argument itself.
ArgumentAfter(frame, stage, p) ==
  AssignColumns(frame, {w.column : w \in {x \in ColumnWrites(stage, GetOr(p.metric, PyStr(Str_sales))) :
                                             x.target = "df"}})

\* The error query_data returns for an empty frame (lines 23-24).
NoDataAvailable == [error |-> "No data available"]

\* The error query_data returns when no row passes the filters (lines 59-64).
NoDataFound(params) ==
  [error |-> "No data found",
   message |-> "No results match your filters. Try different criteria.",
   filters_applied |-> [key \in {x \in DOMAIN params : params[x] # PyNone} |-> params[key]]]

\* ------------------------------------------------------------------ state
VARIABLES
  df,           \* the loaded row set (load_data's frame)
  pc,           \* where the chat turn is
  retry_count,  \* extract_parameters' argument
  attempt,      \* extract_parameters' loop index
  calls,        \* calls of model.generate_content made by this extraction
  slept,        \* the time.sleep durations of this extraction, in order
  raw,          \* the JSON object the last response parsed to, before validation
  params,       \* the parameter record extract_parameters returned
  result,       \* query_data's local `result`: the frame after the filters
  stages,       \* the stages of query_data entered in this turn, in order
  returned,     \* what query_data returned, or the exception it raised
  messages      \* st.session_state.messages: the chat history

vars == <<df, pc, retry_count, attempt, calls, slept, raw, params, result, stages, returned,
          messages>>

\* No JSON object yet (every field Absent), and no value returned yet.
NoRaw == [key \in DOMAIN get_default_parameters |-> Absent]
NoResult == [pending |-> TRUE]
Raised(exc) == [raised |-> exc]

\* Sequences over S of length at most n.
SeqsUpTo(S, n) == UNION {[1..k -> S] : k \in 0..n}

\* 2 ** k.
RECURSIVE Pow2(_)
Pow2(k) == IF k <= 0 THEN 1 ELSE 2 * Pow2(k - 1)

\* The state after load_data: some row set over the given rows and column sets.
InitOver(RowSet, ColumnSets) ==
  /\ df \in {[columns |-> c, rows |-> r] : c \in ColumnSets, r \in SeqsUpTo(RowSet, MaxRows)}
  /\ pc = "idle"
  /\ retry_count = 0
  /\ attempt = 0
  /\ calls = 0
  /\ slept = <<>>
  /\ raw = NoRaw
  /\ params = get_default_parameters
  /\ result = Kept(<<>>)
  /\ stages = <<>>
  /\ returned = NoResult
  /\ messages = <<>>

\* A message of the history: its role, and for an assistant message the position in
\* the history of the user message it answers (prompt is messages[-1], line 120).
UserMessage == [role |-> "user", query |-> 0]
AssistantMessage(query) == [role |-> "assistant", query |-> query]

\* Lines 106-110: a pending query is the last message when it is a user message that is
\* the first message or follows an assistant message.
needs_processing(history) ==
  /\ Len(history) > 0
  /\ history[Len(history)].role = "user"
  /\ (Len(history) = 1 \/ history[Len(history) - 1].role = "assistant")

\* Lines 119-128: the last message is taken up and extract_parameters called.
Process(Retries) ==
  /\ pc' = "extract"
  /\ retry_count' \in Retries
  /\ attempt' = 0
  /\ calls' = 0
  /\ slept' = <<>>
  /\ raw' = NoRaw
  /\ params' = get_default_parameters
  /\ result' = Kept(<<>>)
  /\ stages' = <<>>
  /\ returned' = NoResult

\* The locals of a script run are gone when it ends.
RunEnds ==
  /\ retry_count' = 0
  /\ attempt' = 0
  /\ calls' = 0
  /\ slept' = <<>>
  /\ raw' = NoRaw
  /\ params' = get_default_parameters
  /\ result' = Kept(<<>>)
  /\ stages' = <<>>
  /\ returned' = NoResult

\* app.py main, lines 113-128: a question typed in the chat input is added to the
\* history and processed in the same run. Lengths are the history lengths at which
\* the specification lets a new user message in.
Ask(Retries, Lengths) ==
  /\ pc = "idle"
  /\ Len(messages) \in Lengths
  /\ messages' = Append(messages, UserMessage)
  /\ Process(Retries)
  /\ UNCHANGED df

\* Lines 36-40: a sidebar example button adds its query to the history and calls
\* st.rerun(), which ends this run and starts the script again.
SidebarButton(Lengths) ==
  /\ pc = "idle"
  /\ Len(messages) \in Lengths
  /\ messages' = Append(messages, UserMessage)
  /\ pc' = "rerun"
  /\ UNCHANGED <<df, retry_count, attempt, calls, slept, raw, params, result, stages, returned>>

\* Lines 66-68: Clear Chat empties the history and calls st.rerun().
ClearChat ==
  /\ pc = "idle"
  /\ messages' = <<>>
  /\ pc' = "rerun"
  /\ UNCHANGED <<df, retry_count, attempt, calls, slept, raw, params, result, stages, returned>>

\* A run of the script with no new input (lines 105-120): the pending query is
\* processed if there is one.
Rerun(Retries) ==
  /\ pc = "rerun"
  /\ IF needs_processing(messages)
     THEN Process(Retries)
     ELSE /\ pc' = "idle"
          /\ UNCHANGED <<retry_count, attempt, calls, slept, raw, params, result, stages, returned>>
  /\ UNCHANGED <<df, messages>>

\* extract_parameters returns p (lines 108, 119, 129, 131); its loop index and its
\* waits end with the call.
ExtractReturn(p) ==
  /\ params' = p
  /\ pc' = "extracted"
  /\ attempt' = 0
  /\ slept' = <<>>

\* A failed attempt: wait and go round the loop, or return the defaults on the last one.
ExtractFail(wait) ==
  IF attempt < retry_count - 1
  THEN /\ slept' = Append(slept, wait)
       /\ attempt' = attempt + 1
       /\ UNCHANGED <<pc, params>>
  ELSE ExtractReturn(get_default_parameters)

\* One iteration of extract_parameters' loop (lines 78-129), or the return after it
\* (line 131). The service raises, answers text that is no JSON, answers JSON that is
\* no object (validate_parameters then raises AttributeError), or answers an object.
ExtractStep(Raws) ==
  /\ pc = "extract"
  /\ IF attempt >= retry_count
     THEN /\ ExtractReturn(get_default_parameters)
          /\ UNCHANGED <<calls, raw>>
     ELSE /\ calls' = calls + 1
          /\ \/ /\ \E failure \in {"exception", "not_an_object"} : ExtractFail(Pow2(attempt))
                /\ raw' = NoRaw
             \/ /\ ExtractFail(1)
                /\ raw' = NoRaw
             \/ \E object \in Raws :
                  /\ raw' = object
                  /\ ExtractReturn(validate_parameters(object))
  /\ UNCHANGED <<df, retry_count, result, stages, returned, messages>>

\* app.py line 135 and query_data, lines 23-56: extract_parameters' frame is gone,
\* query_data is called: the empty-frame return, then the filters.
QueryFilter ==
  /\ pc = "extracted"
  /\ retry_count' = 0
  /\ calls' = 0
  /\ IF df.rows = <<>>
     THEN /\ returned' = NoDataAvailable
          /\ pc' = "done"
          /\ UNCHANGED <<result, stages>>
     ELSE /\ result' = ApplyFilters(df, params)
          /\ stages' = Append(stages, "filter")
          /\ IF result'.ok
             THEN pc' = "filtered" /\ UNCHANGED returned
             ELSE pc' = "done" /\ returned' = Raised(result'.exc)
  /\ UNCHANGED <<df, attempt, slept, raw, params, messages>>

\* Dispatch with the special query types tested before the empty check.
Dispatch_TopNBeforeEmptyCheck(rows, p) ==
  IF Truthy(Get(p.top_n)) THEN "get_top_n"
  ELSE IF Get(p.comparison) = PyStr(Str_yoy) THEN "calculate_yoy"
  ELSE IF rows = <<>> THEN "no_data"
  ELSE "standard"

\* The stage query_data hands the filtered rows to (lines 59-73).
Dispatch(rows, p) ==
  IF rows = <<>> THEN "no_data"
  ELSE IF Truthy(Get(p.top_n)) THEN "get_top_n"
  ELSE IF Get(p.comparison) = PyStr(Str_yoy) THEN "calculate_yoy"
  ELSE "standard"

\* query_data, lines 58-73: the empty check and the choice of the terminal stage.
QueryDispatch ==
  /\ pc = "filtered"
  /\ IF Dispatch(result.rows, params) = "no_data"
     THEN /\ returned' = NoDataFound(params)
          /\ pc' = "done"
     ELSE /\ pc' = Dispatch(result.rows, params)
          /\ UNCHANGED returned
  /\ UNCHANGED <<df, retry_count, attempt, calls, slept, raw, params, result, stages, messages>>

\* query_data line 68: return get_top_n(result, params).
GetTopN ==
  /\ pc = "get_top_n"
  /\ stages' = Append(stages, "get_top_n")
  /\ returned' = get_top_n(result.rows, params)
  /\ pc' = "done"
  /\ result' = ArgumentAfter(result, "get_top_n", params)
  /\ UNCHANGED <<df, retry_count, attempt, calls, slept, raw, params, messages>>

\* query_data line 71: return calculate_yoy(result, params).
CalculateYoy ==
  /\ pc = "calculate_yoy"
  /\ stages' = Append(stages, "calculate_yoy")
  /\ returned' = calculate_yoy(result.rows, params)
  /\ pc' = "done"
  /\ result' = ArgumentAfter(result, "calculate_yoy", params)
  /\ UNCHANGED <<df, retry_count, attempt, calls, slept, raw, params, messages>>

\* query_data lines 73-118.
Standard ==
  /\ pc = "standard"
  /\ stages' = Append(stages, "standard")
  /\ returned' = StandardAggregation(result.rows, params)
  /\ pc' = "done"
  /\ result' = ArgumentAfter(result, "standard", params)
  /\ UNCHANGED <<df, retry_count, attempt, calls, slept, raw, params, messages>>

\* app.py main, lines 137-188: the message is rendered and one assistant message is
\* stored, at line 167 or, when anything in the try block has raised, at line 185; the
\* run ends.
Finish ==
  /\ pc = "done"
  /\ pc' = "idle"
  /\ messages' = Append(messages, AssistantMessage(Len(messages)))
  /\ RunEnds
  /\ UNCHANGED df

\* The steps of a chat turn: an input, the extraction, the query, the answer.
Turn(Raws, Retries, Lengths) ==
  \/ Ask(Retries, Lengths)
  \/ SidebarButton(Lengths)
  \/ Rerun(Retries)
  \/ ExtractStep(Raws)
  \/ QueryFilter
  \/ QueryDispatch
  \/ GetTopN
  \/ CalculateYoy
  \/ Standard
  \/ Finish

\* One question at a time, the history cleared between questions.
NextOver(Raws, Retries) ==
  \/ Turn(Raws, Retries, {0})
  \/ ClearChat

\* Where a run is between taking up the last message (line 120) and storing the
\* assistant message (lines 167, 185).
Processing == {"extract", "extracted", "filtered", "get_top_n", "calculate_yoy", "standard", "done"}

\* A sidebar button is clicked while a run is processing: the run is stopped at its
\* next st.* call (a script-control exception, which `except Exception` at line 176
\* does not catch), before it stores an assistant message, and the new run executes
\* lines 36-40.
InterruptBySidebar(Lengths) ==
  /\ pc \in Processing
  /\ Len(messages) \in Lengths
  /\ messages' = Append(messages, UserMessage)
  /\ pc' = "rerun"
  /\ RunEnds
  /\ UNCHANGED df

\* A question is submitted in the chat input while a run is processing: the run is
\* stopped the same way, and the new run executes lines 113-128.
InterruptByChat(Retries, Lengths) ==
  /\ pc \in Processing
  /\ Len(messages) \in Lengths
  /\ messages' = Append(messages, UserMessage)
  /\ Process(Retries)
  /\ UNCHANGED df

\* -------------------------------------------------------------- inputs
Str_Lays == <<"L","a","y","s">>
Str_Coke == <<"C","o","k","e">>
Str_lays == <<"l","a","y","s">>
Str_Pepsi == <<"P","e","p","s","i">>
Str_JAN == <<"J","A","N">>
Str_FEB == <<"F","E","B">>
Str_January == <<"J","a","n","u","a","r","y">>
Str_North == <<"N","o","r","t","h">>
Str_South == <<"S","o","u","t","h">>
Str_Delhi == <<"D","e","l","h","i">>
Str_north == <<"n","o","r","t","h">>
Str_Snacks == <<"S","n","a","c","k","s">>
Str_Chips == <<"C","h","i","p","s">>
Str_abc == <<"a","b","c">>
Str_revenue == <<"r","e","v","e","n","u","e">>
Str_Numeral3 == <<"3">>
Str_Numeral2Point5 == <<"2", ".", "5">>

Str_SEP == <<"S","E","P">>
Str_jan == <<"j","a","n">>
Str_PaddedFeb == <<" ","F","e","b"," ">>
Str_september == <<"s","e","p","t","e","m","b","e","r">>
Str_LongSeptember == <<LongS,"e","p","t","e","m","b","e","r">>
Str_LongSep == <<LongS,"e","p">>
Str_Paddedxyz == <<" ","x","y","z"," ">>
Str_Blank == <<" ">>

AllColumns == {"brand", "category", "sub_brand", "month", "year", "area", "city",
               "store_id", "sales"}

Row(brand, month, year, area, store_id, sales) ==
  [brand |-> brand, category |-> Str_Snacks, sub_brand |-> Str_Chips, month |-> month,
   year |-> year, area |-> area, city |-> Str_Delhi, store_id |-> store_id, sales |-> sales]

\* The JSON objects over the given values of each field.
RawsOver(B, P, M, Y, R, Me, Ag, C, T) ==
  {[brand |-> b, product |-> p, month |-> m, year |-> y, region |-> r, metric |-> me,
    aggregation |-> ag, comparison |-> c, top_n |-> t] :
     b \in B, p \in P, m \in M, y \in Y, r \in R, me \in Me, ag \in Ag, c \in C, t \in T}

\* query_data(df, params) as one function: the stages entered and the value returned
\* (or the exception raised).
query_data(frame, p) ==
  IF frame.rows = <<>> THEN [stages |-> <<>>, returned |-> NoDataAvailable]
  ELSE LET filtered == ApplyFilters(frame, p)
           stage == Dispatch(filtered.rows, p)
       IN IF ~filtered.ok THEN [stages |-> <<"filter">>, returned |-> Raised(filtered.exc)]
          ELSE IF stage = "no_data" THEN [stages |-> <<"filter">>, returned |-> NoDataFound(p)]
          ELSE [stages |-> <<"filter", stage>>,
                returned |-> CASE stage = "get_top_n" -> get_top_n(filtered.rows, p)
                               [] stage = "calculate_yoy" -> calculate_yoy(filtered.rows, p)
                               [] OTHER -> StandardAggregation(filtered.rows, p)]

\* ------------------------------------------------------- specifications
\* Filters and dispatch: rows of two brands and two years; parameter records with a
\* brand, month or year of each shape the extraction can deliver.
DispatchRows ==
  {Row(b, Str_JAN, y, Str_North, 1, PyInt(100)) : b \in {Str_Lays, Str_Coke}, y \in {2023, 2024}}
DispatchRaws ==
  RawsOver({PyNone, PyStr(Str_lays), PyInt(7)}, {PyNone}, {PyNone, PyStr(Str_January), PyInt(5)},
           {PyNone, PyInt(0), PyInt(2024)}, {PyNone},
           {PyStr(Str_sales), PyStr(Str_active_stores)}, {PyStr(Str_sum)},
           {PyNone, PyStr(Str_yoy)}, {PyNone, PyInt(0), PyInt(2), PyInt(-1)})

\* Active stores and rankings: rows of two brands over two years (one brand sold in
\* both) and two stores, with sales and returns; parameter records choosing the metric and the terminal stage.
StoresRows ==
  {Row(g[1], Str_JAN, g[2], Str_North, st, PyInt(v)) :
     g \in {<<Str_Lays, 2023>>, <<Str_Lays, 2024>>, <<Str_Coke, 2024>>},
     st \in {1, 2}, v \in {100, -100}}
StoresRaws ==
  RawsOver({PyNone}, {PyNone}, {PyNone}, {PyNone}, {PyNone},
           {PyStr(Str_sales), PyStr(Str_active_stores)}, {PyStr(Str_sum)},
           {PyNone, PyStr(Str_yoy)}, {PyNone, PyInt(1), PyInt(5)})

\* Extraction: every retry_count up to MaxRetry, a few JSON objects, two rows.
SmallRows ==
  {Row(Str_Lays, Str_JAN, 2023, Str_North, 1, PyInt(100)),
   Row(Str_Coke, Str_FEB, 2024, Str_South, 2, PyInt(50))}
ExtractRaws ==
  RawsOver({PyNone}, {PyNone}, {PyNone, PyStr(Str_January)}, {PyNone}, {PyNone},
           {PyStr(Str_sales), PyStr(Str_revenue)}, {Absent, PyStr(Str_average)},
           {PyNone, PyStr(Str_yoy)}, {PyNone, PyInt(2)})

\* Validation: JSON objects with a metric, an aggregation and a top_n of every shape.
ValidateRaws ==
  RawsOver({PyNone}, {PyNone}, {PyNone}, {PyNone, PyInt(2024)}, {PyNone},
           {Absent, PyNone, PyStr(Str_sales), PyStr(Str_active_stores), PyStr(Str_revenue), PyInt(7)},
           {Absent, PyNone, PyStr(Str_sum), PyStr(Str_count), PyStr(Str_average), PyStr(Str_abc)},
           {PyNone, PyStr(Str_yoy)},
           {Absent, PyNone, PyInt(0), PyInt(-1), PyInt(2), PyStr(Str_Numeral3), PyStr(Str_abc),
            PyStr(Str_Numeral2Point5), PyStr(<<>>), PyFloat(25), PyFloat(5), PyList(1)})

\* Optional columns: row sets with and without the category, sub_brand, area and city
\* columns; parameter records with a product and a region.
OptionalColumns == {"category", "sub_brand", "area", "city"}
ColumnSets == {AllColumns \ missing : missing \in SUBSET OptionalColumns}
ColumnRaws ==
  RawsOver({PyNone}, {PyNone, PyStr(Str_Snacks), PyStr(Str_abc)}, {PyNone}, {PyNone},
           {PyNone, PyStr(Str_north), PyStr(Str_Delhi)},
           {PyStr(Str_sales)}, {PyStr(Str_sum)}, {PyNone, PyStr(Str_yoy)}, {PyNone, PyInt(2)})

\* Month spellings: rows of three months; parameter records whose month is a full name or
\* an abbreviation in any case, padded, unrecognised, blank, empty, or spelt with a long s.
MonthRows ==
  {Row(Str_Lays, Str_JAN, 2023, Str_North, 1, PyInt(100)),
   Row(Str_Coke, Str_FEB, 2024, Str_North, 2, PyInt(50)),
   Row(Str_Lays, Str_SEP, 2024, Str_South, 1, PyInt(70))}
MonthSpellings ==
  {Str_January, Str_jan, Str_JAN, Str_PaddedFeb, Str_september, Str_SEP, Str_LongSeptember,
   Str_LongSep, Str_abc, Str_Paddedxyz, Str_Blank, <<>>}
MonthRaws ==
  RawsOver({PyNone}, {PyNone}, {PyNone} \cup {PyStr(x) : x \in MonthSpellings}, {PyNone},
           {PyNone}, {PyStr(Str_sales)}, {PyStr(Str_sum)}, {PyNone, PyStr(Str_yoy)},
           {PyNone, PyInt(2)})

\* Year-over-year: rows of one brand over three years with a gap (2022, 2024, 2025), a
\* store selling 1000 or returning 1000 and a second store selling 1500.
YoyRows ==
  {Row(Str_Lays, Str_JAN, y, Str_North, sv[1], PyInt(sv[2])) :
     y \in {2022, 2024, 2025}, sv \in {<<1, 1000>>, <<1, -1000>>, <<2, 1500>>}}
YoyRaws ==
  RawsOver({PyNone}, {PyNone}, {PyNone}, {PyNone, PyInt(2024)}, {PyNone},
           {PyStr(Str_sales), PyStr(Str_active_stores)}, {PyStr(Str_sum)},
           {PyNone, PyStr(Str_yoy)}, {PyNone, PyInt(2)})

\* Missing values: rows whose sales value is a number or missing; parameter records
\* over the aggregations of the standard path.
NullRows ==
  {Row(Str_Lays, Str_JAN, 2023, Str_North, st, v) :
     st \in {1, 2}, v \in {PyInt(100), PyInt(50), PyNone}}
NullRaws ==
  RawsOver({PyNone, PyStr(Str_Pepsi)}, {PyNone}, {PyNone}, {PyNone}, {PyNone},
           {PyStr(Str_sales), PyStr(Str_active_stores)},
           {PyStr(Str_sum), PyStr(Str_average), PyStr(Str_count)},
           {PyNone, PyStr(Str_yoy)}, {PyNone, PyInt(2)})

\* The chat loop: two rows, parameter records choosing the terminal stage, and histories
\* of up to MaxMessages user messages.
ChatRaws ==
  RawsOver({PyNone}, {PyNone}, {PyNone}, {PyNone}, {PyNone}, {PyStr(Str_sales)},
           {PyStr(Str_sum)}, {PyNone, PyStr(Str_yoy)}, {PyNone, PyInt(2)})
ChatLengths == 0..(MaxMessages - 1)

Init == InitOver(DispatchRows, {AllColumns})
Next == NextOver(DispatchRaws, {DefaultRetryCount})
Spec == Init /\ [][Next]_vars

InitStores == InitOver(StoresRows, {AllColumns})
NextStores == NextOver(StoresRaws, {DefaultRetryCount})
SpecStores == InitStores /\ [][NextStores]_vars

InitExtract == InitOver(SmallRows, {AllColumns})
NextExtract == NextOver(ExtractRaws, 0..MaxRetry)
\* extract_parameters is synchronous code: once called it runs each loop iteration.
SpecExtract == InitExtract /\ [][NextExtract]_vars /\ WF_vars(ExtractStep(ExtractRaws))

InitValidate == InitOver(SmallRows, {AllColumns})
NextValidate == NextOver(ValidateRaws, {DefaultRetryCount})
SpecValidate == InitValidate /\ [][NextValidate]_vars

InitColumns == InitOver(SmallRows, ColumnSets)
NextColumns == NextOver(ColumnRaws, {DefaultRetryCount})
SpecColumns == InitColumns /\ [][NextColumns]_vars

InitMonth == InitOver(MonthRows, {AllColumns})
NextMonth == NextOver(MonthRaws, {DefaultRetryCount})
SpecMonth == InitMonth /\ [][NextMonth]_vars

InitYoy == InitOver(YoyRows, {AllColumns})
NextYoy == NextOver(YoyRaws, {DefaultRetryCount})
SpecYoy == InitYoy /\ [][NextYoy]_vars

InitNulls == InitOver(NullRows, {AllColumns})
NextNulls == NextOver(NullRaws, {DefaultRetryCount})
SpecNulls == InitNulls /\ [][NextNulls]_vars

InitChat == InitOver(SmallRows, {AllColumns})
\* Inputs may arrive while a run is processing.
NextChat ==
  \/ Turn(ChatRaws, {DefaultRetryCount}, ChatLengths)
  \/ InterruptBySidebar(ChatLengths)
  \/ InterruptByChat({DefaultRetryCount}, ChatLengths)
SpecChat == InitChat /\ [][NextChat]_vars
\* Every run runs to its end before the next input.
NextTurns ==
  \/ Turn(ChatRaws, {DefaultRetryCount}, ChatLengths)
  \/ ClearChat
SpecTurns == InitChat /\ [][NextTurns]_vars

\* ----------------------------------------------------------------- claims
TerminalStages == {"get_top_n", "calculate_yoy", "standard"}
\* The terminal stages entered so far in this turn, in order.
TerminalsRun == SelectSeq(stages, LAMBDA x : x \in TerminalStages)
\* query_data has returned (or raised) after filtering left at least one row.
ReturnedOnRows == pc = "done" /\ result.ok /\ result.rows # <<>>
\* query_data has returned with no row left after the filters (or none to start with).
ReturnedOnNothing == pc = "done" /\ result.ok /\ result.rows = <<>>

\* C1: after the filters leave at least one row, query_data has run the filter stage
\* first and then exactly one terminal stage: Top-N whenever top_n is present
\* (non-null), else YoY when comparison = 'yoy', else the standard aggregation.
C1_FixedPrecedence ==
  ReturnedOnRows =>
    stages = <<"filter",
               IF params.top_n # PyNone THEN "get_top_n"
               ELSE IF params.comparison = PyStr(Str_yoy) THEN "calculate_yoy"
               ELSE "standard">>

\* C1, apart from top_n = 0: the same with "present" read as non-null and non-zero.
\* Every turn on a non-empty filtered set runs the filter stage and one terminal stage.
C1_PrecedenceForNonZeroTopN ==
  ReturnedOnRows =>
    /\ Len(TerminalsRun) = 1
    /\ stages = <<"filter",
                  IF params.top_n # PyNone /\ params.top_n # PyInt(0) THEN "get_top_n"
                  ELSE IF params.comparison = PyStr(Str_yoy) THEN "calculate_yoy"
                  ELSE "standard">>

\* The echo of the no_data error: exactly the parameters that are not None.
EchoesNonNull(ret, p) ==
  /\ DOMAIN ret = {"error", "message", "filters_applied"}
  /\ ret.error = "No data found"
  /\ \A key \in DOMAIN p :
       IF p[key] = PyNone THEN key \notin DOMAIN ret.filters_applied
       ELSE key \in DOMAIN ret.filters_applied /\ ret.filters_applied[key] = p[key]

\* C2 as stated: whenever no row is left after the filters, an empty row set included,
\* query_data returns the no_data error echoing every non-null parameter and enters no
\* terminal stage.
C2_NoDataAlwaysEchoes ==
  ReturnedOnNothing => EchoesNonNull(returned, params) /\ TerminalsRun = <<>>

\* C2 amended: whenever no row is left after the filters, query_data returns an error
\* and enters no terminal stage; on a non-empty row set it is the no_data error echoing
\* every non-null parameter, on an empty row set the bare "No data available" error.
C2_NoDataBeforeDispatch ==
  ReturnedOnNothing =>
    /\ TerminalsRun = <<>>
    /\ "error" \in DOMAIN returned
    /\ df.rows # <<>> => EchoesNonNull(returned, params)
    /\ df.rows = <<>> => DOMAIN returned = {"error"} /\ returned.error = "No data available"

\* C2's case: a Top-N and YoY request whose filters leave nothing of a non-empty row set.
C2_Witness ==
  /\ ReturnedOnNothing
  /\ df.rows # <<>>
  /\ params.top_n = PyInt(2)
  /\ params.comparison = PyStr(Str_yoy)
  /\ params.metric = PyStr(Str_active_stores)
  /\ "error" \in DOMAIN returned

\* C3: query_data always returns a result record; nothing leaves it as an exception.
C3_NeverRaises == pc = "done" => "raised" \notin DOMAIN returned

\* C4: with comparison = 'yoy' the filtered rows are those of the same parameters with
\* year null; otherwise, with a non-null year, only rows of that year remain.
C4_YearFilter ==
  (pc = "filtered" \/ ReturnedOnRows \/ (ReturnedOnNothing /\ df.rows # <<>>)) =>
    /\ params.comparison = PyStr(Str_yoy) =>
         result.rows = ApplyFilters(df, [params EXCEPT !.year = PyNone]).rows
    /\ (params.comparison # PyStr(Str_yoy) /\ params.year # PyNone) =>
         \A i \in 1..Len(result.rows) : PyInt(result.rows[i].year) = params.year

\* C4, apart from year = 0: the same with the year filter claimed for a non-zero year.
C4_YearFilterForNonZeroYear ==
  (pc = "filtered" \/ ReturnedOnRows \/ (ReturnedOnNothing /\ df.rows # <<>>)) =>
    /\ params.comparison = PyStr(Str_yoy) =>
         result.rows = ApplyFilters(df, [params EXCEPT !.year = PyNone]).rows
    /\ (params.comparison # PyStr(Str_yoy) /\ params.year \notin {PyNone, PyInt(0)}) =>
         \A i \in 1..Len(result.rows) : PyInt(result.rows[i].year) = params.year

\* The sales of the rows at the given positions, summed row by row.
NetSales(rows, positions) ==
  LET net[i \in 0..Len(rows)] ==
        IF i = 0 THEN 0
        ELSE net[i - 1] + (IF i \in positions /\ rows[i].sales.t = "int" THEN rows[i].sales.n ELSE 0)
  IN net[Len(rows)]
\* The stores counted for a grouping (the rows at the given positions): those whose
\* sales inside it sum to more than zero.
ActiveIn(rows, positions) ==
  {st \in {rows[i].store_id : i \in 1..Len(rows)} :
     NetSales(rows, {i \in positions : rows[i].store_id = st}) > 0}
\* The groupings: all rows, the rows of a brand, the rows of a year.
AllOf(rows) == 1..Len(rows)
OfBrand(rows, b) == {i \in 1..Len(rows) : rows[i].brand = b}
OfYear(rows, y) == {i \in 1..Len(rows) : rows[i].year = y}
\* A terminal stage has returned on the active_stores metric.
ReturnedActiveStores(stage) ==
  /\ ReturnedOnRows
  /\ params.metric = PyStr(Str_active_stores)
  /\ stages = <<"filter", stage>>

\* C5: every stage counts a store for a grouping iff its sales inside the grouping sum
\* to more than zero: the standard path over the whole filtered set, Top-N per brand,
\* YoY per year.
C5_ActiveStoreIffPositiveNet ==
  /\ ReturnedActiveStores("standard") =>
       /\ returned.value = Rat(Cardinality(ActiveIn(result.rows, AllOf(result.rows))), 1)
       /\ {returned.data[i].store_id : i \in 1..Len(returned.data)}
            = ActiveIn(result.rows, AllOf(result.rows))
  /\ ReturnedActiveStores("get_top_n") =>
       /\ \A i \in 1..Len(returned.data) :
            returned.data[i].active_stores
              = Cardinality(ActiveIn(result.rows, OfBrand(result.rows, returned.data[i].brand)))
       /\ \A i \in 1..Len(result.rows) :
            (/\ params.top_n.n >= Cardinality(Brands(result.rows))
             /\ ActiveIn(result.rows, OfBrand(result.rows, result.rows[i].brand)) # {})
            => \E j \in 1..Len(returned.data) : returned.data[j].brand = result.rows[i].brand
  /\ ReturnedActiveStores("calculate_yoy") =>
       /\ \A i \in 1..Len(returned.data) :
            returned.data[i].active_stores
              = Cardinality(ActiveIn(result.rows, OfYear(result.rows, returned.data[i].year)))
       /\ \A i \in 1..Len(result.rows) :
            ActiveIn(result.rows, OfYear(result.rows, result.rows[i].year)) # {}
            => \E j \in 1..Len(returned.data) : returned.data[j].year = result.rows[i].year

\* C5's case: a store whose sales net to zero or below over the whole filtered set is
\* counted for the one brand (Top-N) in which its net is positive.
C5_Witness ==
  /\ ReturnedActiveStores("get_top_n")
  /\ \E st \in {1, 2} :
       /\ st \notin ActiveIn(result.rows, AllOf(result.rows))
       /\ \E i \in 1..Len(returned.data) :
            /\ st \in ActiveIn(result.rows, OfBrand(result.rows, returned.data[i].brand))
            /\ returned.data[i].active_stores >= 1

\* Top-N has returned with N larger than the number of brands of the filtered rows.
TopNBeyondBrands ==
  /\ ReturnedOnRows
  /\ stages = <<"filter", "get_top_n">>
  /\ params.top_n.n > Cardinality(Brands(result.rows))
\* The ranked value of a row of the Top-N table.
TopNValue(row) == IF "sales" \in DOMAIN row THEN row.sales ELSE row.active_stores
\* The sum of the ranked values of the rows of a Top-N table.
TopNTotal(data) ==
  LET total[i \in 0..Len(data)] == IF i = 0 THEN 0 ELSE total[i - 1] + TopNValue(data[i])
  IN total[Len(data)]
\* The sum of the percentages of a Top-N table, in hundredths (all of them numbers).
PercentSum(data) ==
  LET total[i \in 0..Len(data)] == IF i = 0 THEN 0 ELSE total[i - 1] + data[i].percentage.num
  IN total[Len(data)]
Abs(x) == IF x < 0 THEN -x ELSE x
\* Every percentage is value / total * 100 to the nearest hundredth, and together they
\* are 100 up to half a hundredth per row.
SharesOfReturnedRows(data) ==
  /\ \A i \in 1..Len(data) :
       /\ data[i].percentage.k = "num"
       /\ data[i].percentage.den = 100
       /\ 2 * Abs(data[i].percentage.num * TopNTotal(data) - 10000 * TopNValue(data[i]))
            <= Abs(TopNTotal(data))
  /\ 2 * Abs(PercentSum(data) - 10000) <= Len(data)

\* C10 as stated: with N larger than the number of brands, for either metric, the table
\* has one row for every brand of the filtered rows and the percentages are shares of
\* the returned rows' sum, adding up to 100 up to rounding.
C10_AllBrandsSharesSumTo100 ==
  TopNBeyondBrands =>
    /\ {returned.data[i].brand : i \in 1..Len(returned.data)} = Brands(result.rows)
    /\ Len(returned.data) = Cardinality(Brands(result.rows))
    /\ SharesOfReturnedRows(returned.data)

\* C10 amended: with N larger than the number of brands the table has one row for every
\* brand of the filtered rows on the sales metric, and one row for every brand that has
\* an active store on the active_stores metric; when the returned rows' values do not sum
\* to zero the percentages are shares of that sum and add up to 100 up to rounding, and
\* when they sum to zero no percentage is a number.
C10_RankedBrandsSharesOfReturned ==
  TopNBeyondBrands =>
    /\ {returned.data[i].brand : i \in 1..Len(returned.data)}
         = IF params.metric = PyStr(Str_sales) THEN Brands(result.rows)
           ELSE {b \in Brands(result.rows) : ActiveIn(result.rows, OfBrand(result.rows, b)) # {}}
    /\ \A i, j \in 1..Len(returned.data) :
         returned.data[i].brand = returned.data[j].brand => i = j
    /\ IF TopNTotal(returned.data) # 0
       THEN SharesOfReturnedRows(returned.data)
       ELSE \A i \in 1..Len(returned.data) : returned.data[i].percentage.k # "num"

\* C10's case: both brands ranked with N = 5, their shares a third and two thirds.
C10_Witness ==
  /\ TopNBeyondBrands
  /\ params.top_n = PyInt(5)
  /\ Len(returned.data) = 2
  /\ returned.data[1].percentage = Rat(6667, 100)
  /\ returned.data[2].percentage = Rat(3333, 100)

ParameterKeys ==
  {"brand", "product", "month", "year", "region", "metric", "aggregation", "comparison", "top_n"}
\* The record extract_parameters returned holds every field.
FullyPopulated(p) == DOMAIN p = ParameterKeys /\ \A key \in ParameterKeys : p[key].t # "absent"
\* The default parameter set, written out.
IsDefaultParameterSet(p) ==
  /\ \A key \in {"brand", "product", "month", "year", "region", "comparison", "top_n"} :
       p[key] = PyNone
  /\ p.metric = PyStr(<<"s", "a", "l", "e", "s">>)
  /\ p.aggregation = PyStr(<<"s", "u", "m">>)
\* What holds when extract_parameters has returned.
C6_OnReturn ==
  pc = "extracted" =>
    /\ calls <= retry_count
    /\ FullyPopulated(params)
    /\ raw = NoRaw => calls = retry_count /\ IsDefaultParameterSet(params)
    /\ raw # NoRaw => calls >= 1

\* C6: extract_parameters always returns, with a fully populated record, after at most
\* retry_count calls of the service; it makes no call after the first response that
\* parses and validates, and returns exactly the defaults when every attempt fails.
C6_BoundedRetriesThenDefaults ==
  /\ []C6_OnReturn
  /\ [][raw # NoRaw => calls' \in {calls, 0}]_vars
  /\ (pc = "extract") ~> (pc = "extracted")

\* C6's case: three attempts, all failed, the defaults returned.
C6_Witness ==
  /\ pc = "extracted"
  /\ retry_count = 3
  /\ calls = 3
  /\ raw = NoRaw
  /\ IsDefaultParameterSet(params)

ValidMetrics == {PyStr(<<"s", "a", "l", "e", "s">>),
                 PyStr(<<"a", "c", "t", "i", "v", "e", "_", "s", "t", "o", "r", "e", "s">>)}
ValidAggregations == {PyStr(<<"s", "u", "m">>), PyStr(<<"c", "o", "u", "n", "t">>),
                      PyStr(<<"a", "v", "e", "r", "a", "g", "e">>)}
\* extract_parameters has returned what validate_parameters made of a JSON object.
Validated == pc = "extracted" /\ raw # NoRaw

\* C7: the validated record has a metric in {sales, active_stores} and an aggregation in
\* {sum, count, average}; a missing, null or invalid metric has become 'sales', a
\* missing, null or invalid aggregation 'sum', and a valid value is kept.
C7_MetricAndAggregationCoerced ==
  Validated =>
    /\ params.metric \in ValidMetrics
    /\ params.aggregation \in ValidAggregations
    /\ params.metric = IF raw.metric \in ValidMetrics THEN raw.metric
                       ELSE PyStr(<<"s", "a", "l", "e", "s">>)
    /\ params.aggregation = IF raw.aggregation \in ValidAggregations THEN raw.aggregation
                            ELSE PyStr(<<"s", "u", "m">>)

\* C7's case: an invalid metric and a missing aggregation, defaulted.
C7_Witness ==
  /\ Validated
  /\ raw.metric = PyStr(Str_revenue)
  /\ raw.aggregation = Absent
  /\ params.metric = PyStr(Str_sales)
  /\ params.aggregation = PyStr(Str_sum)

\* A top_n value (not missing, not null) that int() cannot parse.
Unparseable(v) == v.t \notin {"absent", "none"} /\ ~PyIntOf(v).ok
\* The turn went as query_data goes on the JSON object without its top_n.
SameAsTopNAbsent ==
  /\ \A i \in 1..Len(stages) : stages[i] # "get_top_n"
  /\ stages = query_data(df, validate_parameters([raw EXCEPT !.top_n = Absent])).stages
  /\ returned = query_data(df, validate_parameters([raw EXCEPT !.top_n = Absent])).returned

\* C8: for a top_n that cannot be parsed as an integer, validating and running query_data
\* gives the result of the same record with top_n absent, and Top-N is not entered.
C8_UnparseableTopNIsAbsent ==
  (pc = "done" /\ raw # NoRaw /\ Unparseable(raw.top_n)) => SameAsTopNAbsent

\* C8, apart from an empty top_n: the same for the unparseable values that are truthy
\* (non-empty text, a non-empty list), the ones validate_parameters tries to convert.
C8_TruthyUnparseableTopNIsAbsent ==
  (pc = "done" /\ raw # NoRaw /\ Unparseable(raw.top_n) /\ Truthy(raw.top_n)) => SameAsTopNAbsent

\* C9: validate_parameters leaves top_n null or an integer >= 1, and get_top_n is never
\* entered with N <= 0.
C9_TopNPositiveOrNull ==
  /\ Validated => params.top_n = PyNone \/ (params.top_n.t = "int" /\ params.top_n.n >= 1)
  /\ pc = "get_top_n" => params.top_n.t = "int" /\ params.top_n.n >= 1

\* C9, the part that holds: what validate_parameters leaves is null, an integer, or the
\* falsy value it was given; Top-N is entered only on a non-zero integer.
C9_TopNIntegerWhenRanked ==
  /\ Validated => \/ params.top_n = PyNone
                  \/ params.top_n.t = "int"
                  \/ (~Truthy(params.top_n) /\ params.top_n = raw.top_n)
  /\ pc = "get_top_n" => params.top_n.t = "int" /\ params.top_n.n # 0

\* calculate_yoy has returned.
YoyReturned == pc = "done" /\ stages = <<"filter", "calculate_yoy">>
\* The tag of an Error Result is its error field.
IsError(r) == "error" \in DOMAIN r
\* The years of the filtered rows that have a row in the per-year table: every year on
\* the sales metric, the years with at least one active store on active_stores.
YearsInTable ==
  IF params.metric = PyStr(Str_sales) THEN Years(result.rows)
  ELSE {y \in Years(result.rows) : ActiveIn(result.rows, OfYear(result.rows, y)) # {}}
\* The total of a year: its sales summed, or the number of its active stores.
YearTotal(y) ==
  IF params.metric = PyStr(Str_sales) THEN NetSales(result.rows, OfYear(result.rows, y))
  ELSE Cardinality(ActiveIn(result.rows, OfYear(result.rows, y)))
\* The total a row of the per-year table carries.
RowTotal(row) == IF "sales" \in DOMAIN row THEN row.sales ELSE row.active_stores
\* The returned table has exactly one row for each year of Y, with that year's total.
OneRowPerYear(Y) ==
  /\ Len(returned.data) = Cardinality(Y)
  /\ {returned.data[i].year : i \in 1..Len(returned.data)} = Y
  /\ \A i \in 1..Len(returned.data) : RowTotal(returned.data[i]) = YearTotal(returned.data[i].year)

\* C11 as stated: a YoY comparison returns the insufficient_data error iff the filtered
\* rows have fewer than 2 distinct years, the error carrying the single year's total,
\* and otherwise a Success Result with one row per year of the filtered rows.
C11_InsufficientIffFewerThanTwoYears ==
  YoyReturned =>
    /\ IsError(returned) <=> Cardinality(Years(result.rows)) < 2
    /\ IsError(returned) => returned.error = "Insufficient data"
    /\ OneRowPerYear(Years(result.rows))

\* C11 amended: a YoY comparison returns the insufficient_data error iff its per-year
\* table has fewer than 2 rows; the table has one row for every year of the filtered rows
\* on the sales metric and one row for every year with at least one active store on the
\* active_stores metric, and it is attached to the error and to the Success Result alike.
C11_InsufficientIffFewerThanTwoYearRows ==
  YoyReturned =>
    /\ IsError(returned) <=> Cardinality(YearsInTable) < 2
    /\ IsError(returned) => returned.error = "Insufficient data"
    /\ OneRowPerYear(YearsInTable)

\* C11's case: rows of two years, one of them with no active store: the error, with the
\* other year's count attached.
C11_Witness ==
  /\ YoyReturned
  /\ params.metric = PyStr(Str_active_stores)
  /\ Cardinality(Years(result.rows)) = 2
  /\ IsError(returned)
  /\ Len(returned.data) = 1

\* query_data has returned a Success Result.
IsSuccess(r) == "row_count" \in DOMAIN r
\* The standard path's table: at most DisplayCap rows, and on the sales metric the
\* filtered rows from the first on, in their order.
StandardTableCapped ==
  /\ Len(returned.data) <= DisplayCap
  /\ Len(returned.data) <= Len(result.rows)
  /\ params.metric = PyStr(Str_sales) =>
       \A i \in 1..Len(returned.data) :
         /\ returned.data[i].brand = result.rows[i].brand
         /\ returned.data[i].year = result.rows[i].year
         /\ returned.data[i].sales = result.rows[i].sales

\* C12: every Success Result of query_data, on the standard, Top-N and YoY paths, has
\* row_count equal to the number of rows left after filtering, and on the standard path
\* a table of at most 100 rows taken from the filtered rows in order.
C12_RowCountIsFilteredRows ==
  (pc = "done" /\ IsSuccess(returned)) =>
    /\ returned.row_count = Len(result.rows)
    /\ stages = <<"filter", "standard">> => StandardTableCapped

\* C12, the part that holds: the same on the standard path alone; on the Top-N and YoY
\* paths row_count is the number of rows of the returned table.
C12_RowCountOnStandardPath ==
  (pc = "done" /\ IsSuccess(returned)) =>
    IF stages = <<"filter", "standard">>
    THEN returned.row_count = Len(result.rows) /\ StandardTableCapped
    ELSE returned.row_count = Len(returned.data)

\* The row set lacks an optional column that a filter of this query would use.
FilterColumnMissing ==
  \/ Truthy(params.product) /\ "category" \notin df.columns /\ "sub_brand" \notin df.columns
  \/ Truthy(params.region) /\ ("area" \notin df.columns \/ "city" \notin df.columns)
\* The filters have left what they leave with the product parameter removed.
ProductSkipped == result = ApplyFilters(df, [params EXCEPT !.product = PyNone])

\* C13: on a row set that lacks an optional column a filter would use, the query still
\* completes: a product is a no-op when neither category nor sub_brand exists, and a
\* region does not make query_data fail when area or city is absent.
C13_MissingColumnsSkipped ==
  (pc = "done" /\ df.rows # <<>> /\ FilterColumnMissing) =>
    /\ "raised" \notin DOMAIN returned
    /\ ("category" \notin df.columns /\ "sub_brand" \notin df.columns) => ProductSkipped

\* C13, the part that holds: a product is a no-op when neither of its columns exists;
\* a region raises KeyError exactly when area or city is absent.
C13_ProductSkippedRegionRaises ==
  (pc = "done" /\ df.rows # <<>>) =>
    /\ ("category" \notin df.columns /\ "sub_brand" \notin df.columns) => ProductSkipped
    /\ returned = Raised("KeyError")
         <=> (Truthy(params.region) /\ ("area" \notin df.columns \/ "city" \notin df.columns))
    /\ "raised" \in DOMAIN returned => returned = Raised("KeyError")

\* The filters have run on a month parameter that is a string.
MonthFiltered == stages # <<>> /\ params.month.t = "str"
CanonicalCodes == {MONTH_MAPPING[i][2] : i \in 1..Len(MONTH_MAPPING)}
\* A spelling the mapping knows once stripped and lower-cased.
Recognized(s) == \E i \in 1..Len(MONTH_MAPPING) : MONTH_MAPPING[i][1] = Lower(Strip(s))
\* normalize_month(normalize_month(x)) = normalize_month(x), neither call raising.
Idempotent(x) ==
  /\ normalize_month(x).ok
  /\ normalize_month(normalize_month(x).val) = normalize_month(x)
\* Recognised spellings give a canonical code, the empty string None, anything else
\* its upper case.
NormalizedAsDocumented(x) ==
  IF x.s = <<>> THEN normalize_month(x).val = PyNone
  ELSE IF Recognized(x.s)
       THEN normalize_month(x).val.t = "str" /\ normalize_month(x).val.s \in CanonicalCodes
       ELSE normalize_month(x).val = PyStr(Upper(x.s))

\* C14: normalize_month is idempotent on every string; recognised spellings map to one
\* of the 12 codes, the empty string to null, unrecognised text to its upper case.
C14_NormalizeMonthIdempotent ==
  MonthFiltered => Idempotent(params.month) /\ NormalizedAsDocumented(params.month)

\* C14, the part that holds: the mapping is as documented, and the function is
\* idempotent on every string except an unrecognised one whose upper case is a
\* recognised spelling.
C14_IdempotentUnlessUpperCaseRecognized ==
  MonthFiltered =>
    /\ NormalizedAsDocumented(params.month)
    /\ (Recognized(params.month.s) \/ ~Recognized(Upper(params.month.s)))
         => Idempotent(params.month)

\* calculate_yoy has returned a Success Result.
YoySuccess == YoyReturned /\ IsSuccess(returned)
\* The year of the table that immediately precedes y in it.
Predecessor(data, y) ==
  CHOOSE p \in {data[k].year : k \in 1..Len(data)} :
    /\ p < y
    /\ \A k \in 1..Len(data) : data[k].year < y => data[k].year <= p
\* x is the float (cur - prev) / prev * 100: that ratio, or with prev = 0 an infinity of
\* the sign of the change, or NaN when the change is 0 too.
IsPercentChange(x, prev, cur) ==
  IF prev # 0 THEN x.k = "num" /\ x.num * prev = x.den * (cur - prev) * 100
  ELSE x = (IF cur > 0 THEN PosInf ELSE IF cur < 0 THEN NegInf ELSE NaN)

\* C15: on the YoY success path the table is sorted ascending by year, the first year has
\* null percent and absolute change, and every later year y with predecessor p in the
\* table has absolute change total(y) - total(p) and percent change
\* (total(y) - total(p)) / total(p) * 100.
C15_ChangesAgainstPrecedingYear ==
  YoySuccess =>
    LET data == returned.data
    IN /\ \A i, j \in 1..Len(data) : i < j => data[i].year < data[j].year
       /\ data[1].yoy_change_pct = NaN /\ data[1].yoy_change_abs = NaN
       /\ \A i \in 2..Len(data) :
            LET y == data[i].year
                p == Predecessor(data, y)
            IN /\ RowTotal(data[i]) = YearTotal(y)
               /\ data[i].yoy_change_abs = Rat(YearTotal(y) - YearTotal(p), 1)
               /\ IsPercentChange(data[i].yoy_change_pct, YearTotal(p), YearTotal(y))

\* C15's case: totals of 1000 in 2022 and 1500 in 2024 (no 2023): +500 and +50 percent.
C15_Witness ==
  /\ YoySuccess
  /\ Len(returned.data) = 2
  /\ returned.data[1].year = 2022 /\ RowTotal(returned.data[1]) = 1000
  /\ returned.data[2].year = 2024 /\ RowTotal(returned.data[2]) = 1500
  /\ returned.data[2].yoy_change_abs = Rat(500, 1)
  /\ returned.data[2].yoy_change_pct.k = "num"
  /\ returned.data[2].yoy_change_pct.num = 50 * returned.data[2].yoy_change_pct.den

\* C16: in extract_parameters every wait after a failed attempt that is not the last is
\* 2^attempt seconds, whatever the failure: the waits so far are 1, 2, 4, ...
C16_ExponentialBackoff ==
  pc = "extract" =>
    /\ Len(slept) = attempt
    /\ \A i \in 1..Len(slept) : slept[i] = 2^(i - 1)

\* C16, the part that holds: one wait per failed attempt that is not the last, each of
\* 2^attempt seconds (a service exception) or of 1 second (a response that is no JSON).
C16_BackoffOrOneSecond ==
  pc = "extract" =>
    /\ Len(slept) = attempt
    /\ attempt <= retry_count - 1 \/ retry_count = 0
    /\ \A i \in 1..Len(slept) : slept[i] \in {1, 2^(i - 1)}

\* The standard path has returned on the sales metric.
StandardSalesReturned ==
  pc = "done" /\ stages = <<"filter", "standard">> /\ params.metric = PyStr(Str_sales)
\* The filtered rows whose sales value is present.
WithSales(rows) == {i \in 1..Len(rows) : rows[i].sales # PyNone}

\* C17: on the standard path with metric sales a row whose sales value is null adds
\* nothing to the sum and is in neither the numerator nor the denominator of the
\* average, and it is counted in row_count.
C17_NullSalesExcluded ==
  StandardSalesReturned =>
    LET present == WithSales(result.rows)
        total == NetSales(result.rows, present)
    IN /\ returned.row_count = Len(result.rows)
       /\ params.aggregation = PyStr(Str_sum) => returned.value = Rat(total, 1)
       /\ params.aggregation = PyStr(Str_average) =>
            IF present = {} THEN returned.value = NaN
            ELSE /\ returned.value.k = "num"
                 /\ returned.value.num * Cardinality(present) = returned.value.den * total

\* C17's case: sales of 100 and of 50 and a row with no sales value: the average is 75
\* over three rows.
C17_Witness ==
  /\ StandardSalesReturned
  /\ params.aggregation = PyStr(Str_average)
  /\ Len(result.rows) = 3
  /\ Cardinality(WithSales(result.rows)) = 2
  /\ returned.row_count = 3
  /\ returned.value.k = "num"
  /\ returned.value.num = 75 * returned.value.den

\* C18: no step of a query changes the loaded row set, and no terminal stage changes
\* the filtered row set it is given; so after any sequence of queries, those ending
\* in an Error Result included, the loaded rows, columns and values are the first ones.
C18_RowSetUnmodified ==
  [][/\ df' = df
     /\ pc \in TerminalStages => result' = result]_vars

\* C18's case: a Top-N query answered with a table of two brands that carries the
\* percentage column, the filtered rows the stage was given carrying none.
C18_Witness ==
  /\ pc = "done"
  /\ stages = <<"filter", "get_top_n">>
  /\ IsSuccess(returned)
  /\ Len(returned.data) = 2
  /\ "percentage" \in DOMAIN returned.data[1]
  /\ \A i \in 1..Len(result.rows) : "percentage" \notin DOMAIN result.rows[i]

\* The user message at position i has its one assistant message right after it.
AnsweredOnce(i) ==
  /\ i < Len(messages)
  /\ messages[i + 1] = AssistantMessage(i)
  /\ \A j \in 1..Len(messages) : messages[j] = AssistantMessage(i) => j = i + 1

\* C19: once every run has come to its end the history alternates user, assistant, ...:
\* every user message, typed or from a sidebar button, has been processed exactly once
\* and has exactly one assistant message, stored right after it.
C19_HistoryAlternates ==
  pc = "idle" =>
    \A i \in 1..Len(messages) :
      IF i % 2 = 1 THEN messages[i].role = "user" /\ AnsweredOnce(i)
      ELSE messages[i].role = "assistant"

====
